---------------------------- MODULE Spec2Model ----------------------------
(***************************************************************************)
(* Model of scripts/validate_rfc6979.py: the RFC6979Validator class and    *)
(* main().                                                                 *)
(*                                                                         *)
(* Data representation.                                                    *)
(*   - A Python str is a sequence of one-character strings (hex strings)   *)
(*     or a sequence of tokens (vector names); str concatenation is \o.    *)
(*   - A Python bytes value is a sequence of integers in 0..255.           *)
(*   - A JSON object is a TLA+ function; a key the object does not have is *)
(*     a key outside its DOMAIN, and reading it raises KeyError.           *)
(*   - The three-valued result of a check (True / False / None) is written *)
(*     "Valid" / "Invalid" / "Skipped".                                    *)
(*   - A call that may raise has a companion predicate <call>_ok; a       *)
(*     try/except is an IF on it.                                         *)
(*                                                                         *)
(* Scaling.  The source works on 32-byte scalars and 256-bit curves.  The  *)
(* model keeps every byte-level operation of the source (hex decoding,     *)
(* slicing, big-endian conversion, range checks) but runs them on 2-byte   *)
(* scalars and on two genuine prime-order curves of the same equations as  *)
(* secp256k1 and secp256r1 over small prime fields.                        *)
(***************************************************************************)
EXTENDS Integers, Sequences, FiniteSets, TLC

(***************************************************************************)
(* Bounds of the model.                                                    *)
(***************************************************************************)
\* Longest collection of vectors drawn from SampleVectors.
MaxVectors == 3
\* Longest claimed ECDSA signature, in bytes, that is enumerated.
MaxSigLen == 5
\* Longest Ed25519 private key, in bytes, that is enumerated.
MaxKeyLen == 5

(***************************************************************************)
(* Sizes.  The source's 32 (bytes of a scalar, a seed, a SHA-256 digest)   *)
(* and 64 (bytes of an R || S signature, of a seed || public key) are      *)
(* scaled by 16.                                                           *)
(***************************************************************************)
SCALAR_BYTES == 32 \div 16
DOUBLE_BYTES == 64 \div 16
\* actual_sig_hex[:32] of the success message, scaled the same way.
MSG_PREFIX == 32 \div 16

FAMILIES == <<"ed25519", "secp256k1", "secp256r1">>
FamilySet == {FAMILIES[j] : j \in 1..Len(FAMILIES)}
ECDSAFamilies == {"secp256k1", "secp256r1"}

(***************************************************************************)
(* str / bytes primitives of Python used by the source.                    *)
(***************************************************************************)
HexDigits ==
  <<"0","1","2","3","4","5","6","7","8","9","a","b","c","d","e","f">>

\* Value of one hexadecimal character, -1 for any other character.
HexVal(c) ==
  CASE c = "0" -> 0  [] c = "1" -> 1  [] c = "2" -> 2  [] c = "3" -> 3
    [] c = "4" -> 4  [] c = "5" -> 5  [] c = "6" -> 6  [] c = "7" -> 7
    [] c = "8" -> 8  [] c = "9" -> 9
    [] c = "a" -> 10 [] c = "b" -> 11 [] c = "c" -> 12
    [] c = "d" -> 13 [] c = "e" -> 14 [] c = "f" -> 15
    [] c = "A" -> 10 [] c = "B" -> 11 [] c = "C" -> 12
    [] c = "D" -> 13 [] c = "E" -> 14 [] c = "F" -> 15
    [] OTHER -> -1

\* bytes.fromhex(h) returns (no ValueError): an even number of hex digits.
fromhex_ok(h) ==
  /\ Len(h) % 2 = 0
  /\ \A j \in 1..Len(h) : HexVal(h[j]) >= 0

\* bytes.fromhex(h), for h with fromhex_ok(h).
fromhex(h) ==
  [j \in 1..(Len(h) \div 2) |-> 16 * HexVal(h[2 * j - 1]) + HexVal(h[2 * j])]

\* bytes.hex(): two lower-case digits per byte.
hex(b) ==
  [j \in 1..(2 * Len(b)) |->
     IF j % 2 = 1 THEN HexDigits[(b[(j + 1) \div 2] \div 16) + 1]
                  ELSE HexDigits[(b[j \div 2] % 16) + 1]]

\* int.from_bytes(b, "big"); the empty bytes value gives 0.
RECURSIVE from_bytes_big(_)
from_bytes_big(b) ==
  IF Len(b) = 0 THEN 0
  ELSE 256 * from_bytes_big(SubSeq(b, 1, Len(b) - 1)) + b[Len(b)]

\* b[:k]
slice_to(b, k) == SubSeq(b, 1, IF k < Len(b) THEN k ELSE Len(b))
\* b[k:]
slice_from(b, k) == SubSeq(b, k + 1, Len(b))
\* b[-k:]
slice_last(b, k) == SubSeq(b, IF Len(b) > k THEN Len(b) - k + 1 ELSE 1, Len(b))

(***************************************************************************)
(* The cryptography provider.                                              *)
(*                                                                         *)
(* SECP256K1 is y^2 = x^3 + 7 over F_13 with base point (7, 5), of prime   *)
(* order 7.  SECP256R1 is y^2 = x^3 - 3x + 6 over F_7 with base point      *)
(* (1, 2), of prime order 11.  xs[k] is the x coordinate of k * G.  A      *)
(* point k * G is represented by k.                                        *)
(***************************************************************************)
SECP256K1 == [name |-> "secp256k1", n |-> 7, xs |-> <<7, 8, 11, 11, 8, 7>>]
SECP256R1 ==
  [name |-> "secp256r1", n |-> 11, xs |-> <<1, 5, 2, 6, 4, 4, 6, 2, 5, 1>>]

\* ec.derive_private_key(d, curve) raises ValueError unless 0 < d < n.
derive_private_key_ok(d, curve) == d >= 1 /\ d < curve.n

\* private_key.public_key(): the point d * G.
public_key(d, curve) == d

\* utils.encode_dss_signature(r, s) raises ValueError on a negative integer.
encode_dss_signature_ok(r, s) == r >= 0 /\ s >= 0
encode_dss_signature(r, s) == <<r, s>>

\* Multiplicative inverse modulo the prime n of s, 0 < s < n.
inverse_mod(s, n) == CHOOSE w \in 1..(n - 1) : (s * w) % n = 1

\* public_key.verify(der, digest, ec.ECDSA(Prehashed(SHA256()))) returns
\* (raises neither ValueError nor InvalidSignature).  Prehashed requires a
\* digest of the hash's size; r and s must lie in 1..n-1; the x coordinate
\* of u1 * G + u2 * Q, reduced modulo n, must equal r.
ecdsa_verify(curve, Q, digest, der) ==
  LET r == der[1]
      s == der[2]
      n == curve.n
  IN  /\ Len(digest) = SCALAR_BYTES
      /\ r >= 1 /\ r < n
      /\ s >= 1 /\ s < n
      /\ LET z  == from_bytes_big(digest) % n
             w  == inverse_mod(s, n)
             u1 == (z * w) % n
             u2 == (r * w) % n
             P  == (u1 + u2 * Q) % n
         IN  /\ P # 0
             /\ curve.xs[P] % n = r

\* Ed25519PrivateKey.from_private_bytes(seed) raises ValueError unless the
\* seed has exactly 32 bytes.
from_private_bytes_ok(seed) == Len(seed) = SCALAR_BYTES

\* private_key.sign(message): a 64-byte signature, a deterministic function
\* of the seed and the message.
ed25519_sign(seed, message) ==
  [j \in 1..DOUBLE_BYTES |->
     (j * from_bytes_big(seed) + 3 * from_bytes_big(message) + j) % 251]


(***************************************************************************)
(* Results of one check: the (result, message) pair a validate_* method    *)
(* returns.  A message is its fixed text and the signatures it quotes.     *)
(***************************************************************************)
Message(text, expected, actual) ==
  [text |-> text, expected |-> expected, actual |-> actual]

ReturnTrue(message) == [result |-> "Valid", message |-> message]
ReturnFalse(message) == [result |-> "Invalid", message |-> message]
ReturnNone(message) == [result |-> "Skipped", message |-> message]

HasKeys(obj, keys) == keys \subseteq DOMAIN obj

\* vector["expected"]["signatures"] does not raise KeyError.
has_signatures(vector) ==
  /\ HasKeys(vector, {"expected"})
  /\ HasKeys(vector.expected, {"signatures"})

(***************************************************************************)
(* validate_ed25519                                                        *)
(***************************************************************************)
\* Variant of ed25519_seed that takes the second half of a 64-byte key.
ed25519_seed_last_half(priv_key_bytes) ==
  IF Len(priv_key_bytes) = DOUBLE_BYTES
  THEN slice_from(priv_key_bytes, SCALAR_BYTES)
  ELSE priv_key_bytes

\* The seed taken from the private key bytes (lines 74-78).
ed25519_seed(priv_key_bytes) ==
  IF Len(priv_key_bytes) = DOUBLE_BYTES
  THEN slice_to(priv_key_bytes, SCALAR_BYTES)
  ELSE priv_key_bytes

validate_ed25519(vector) ==
  LET error == ReturnFalse(Message("Ed25519 validation error", <<>>, <<>>))
  IN
  IF ~has_signatures(vector) THEN error
  ELSE LET sigs == vector.expected.signatures IN
  IF "ed25519" \notin DOMAIN sigs
  THEN ReturnNone(Message("No ed25519 signature in vector", <<>>, <<>>))
  ELSE LET ed25519_data == sigs["ed25519"] IN
  IF ~HasKeys(ed25519_data, {"private_key_hex", "signature_hex"}) THEN error
  ELSE IF ~HasKeys(vector.expected, {"sign_bytes_hex"}) THEN error
  ELSE LET priv_key_hex     == ed25519_data.private_key_hex
           expected_sig_hex == ed25519_data.signature_hex
           sign_bytes_hex   == vector.expected.sign_bytes_hex
       IN
  IF ~fromhex_ok(priv_key_hex) THEN error
  ELSE LET seed == ed25519_seed(fromhex(priv_key_hex)) IN
  IF ~from_private_bytes_ok(seed) THEN error
  ELSE IF ~fromhex_ok(sign_bytes_hex) THEN error
  ELSE LET message        == fromhex(sign_bytes_hex)
           signature      == ed25519_sign(seed, message)
           actual_sig_hex == hex(signature)
       IN
  IF actual_sig_hex = expected_sig_hex
  THEN ReturnTrue(Message("Ed25519 signature matches", <<>>,
                          slice_to(actual_sig_hex, MSG_PREFIX)))
  ELSE ReturnFalse(Message("Ed25519 mismatch!", expected_sig_hex,
                           actual_sig_hex))

(***************************************************************************)
(* validate_secp256k1                                                      *)
(***************************************************************************)
\* Lines 142-162: verify the claimed signature as given, then with n - S.
\* An exception of the second encode_dss_signature is not inside the inner
\* try: it reaches the outer handler (line 164).
verify_expected_secp256k1(the_public_key, message_hash, expected_r, expected_s) ==
  LET error    == ReturnFalse(Message("secp256k1 validation error", <<>>, <<>>))
      verified == ReturnTrue(Message("secp256k1 signature verified", <<>>, <<>>))
      failed   == ReturnFalse(Message("secp256k1 signature verification FAILED",
                                      <<>>, <<>>))
  IN
  IF ~encode_dss_signature_ok(expected_r, expected_s) THEN error
  ELSE IF ecdsa_verify(SECP256K1, the_public_key, message_hash,
                       encode_dss_signature(expected_r, expected_s))
       THEN verified
  ELSE LET n     == 7
           alt_s == n - expected_s
       IN
  IF ~encode_dss_signature_ok(expected_r, alt_s) THEN error
  ELSE IF ecdsa_verify(SECP256K1, the_public_key, message_hash,
                       encode_dss_signature(expected_r, alt_s))
       THEN verified
  ELSE failed

validate_secp256k1(vector) ==
  LET error == ReturnFalse(Message("secp256k1 validation error", <<>>, <<>>))
  IN
  IF ~has_signatures(vector) THEN error
  ELSE LET sigs == vector.expected.signatures IN
  IF "secp256k1" \notin DOMAIN sigs
  THEN ReturnNone(Message("No secp256k1 signature in vector", <<>>, <<>>))
  ELSE LET secp_data == sigs["secp256k1"] IN
  IF ~HasKeys(secp_data, {"private_key_hex", "public_key_hex", "signature_hex"})
  THEN error
  ELSE IF ~HasKeys(vector.expected, {"sign_bytes_hex"}) THEN error
  ELSE LET priv_key_hex     == secp_data.private_key_hex
           expected_sig_hex == secp_data.signature_hex
           sign_bytes_hex   == vector.expected.sign_bytes_hex
       IN
  IF Len(expected_sig_hex) = 0
  THEN ReturnNone(Message("Empty signature (seed derivation only)", <<>>, <<>>))
  ELSE IF ~fromhex_ok(priv_key_hex) THEN error
  ELSE LET priv_key_int == from_bytes_big(fromhex(priv_key_hex)) IN
  IF ~derive_private_key_ok(priv_key_int, SECP256K1) THEN error
  ELSE IF ~fromhex_ok(sign_bytes_hex) THEN error
  ELSE IF ~fromhex_ok(expected_sig_hex) THEN error
  ELSE LET message_hash       == fromhex(sign_bytes_hex)
           expected_sig_bytes == fromhex(expected_sig_hex)
           expected_r == from_bytes_big(slice_to(expected_sig_bytes, SCALAR_BYTES))
           expected_s == from_bytes_big(slice_from(expected_sig_bytes, SCALAR_BYTES))
       IN  verify_expected_secp256k1(public_key(priv_key_int, SECP256K1),
                                     message_hash, expected_r, expected_s)

(***************************************************************************)
(* validate_secp256r1                                                      *)
(***************************************************************************)
\* Variant of verify_expected_secp256r1 that complements S with the order of
\* secp256k1.
verify_expected_secp256r1_k1_order(the_public_key, message_hash, expected_r, expected_s) ==
  LET error    == ReturnFalse(Message("secp256r1 validation error", <<>>, <<>>))
      verified == ReturnTrue(Message("secp256r1 signature verified", <<>>, <<>>))
      failed   == ReturnFalse(Message("secp256r1 signature verification FAILED",
                                      <<>>, <<>>))
  IN
  IF ~encode_dss_signature_ok(expected_r, expected_s) THEN error
  ELSE IF ecdsa_verify(SECP256R1, the_public_key, message_hash,
                       encode_dss_signature(expected_r, expected_s))
       THEN verified
  ELSE LET n     == 7
           alt_s == n - expected_s
       IN
  IF ~encode_dss_signature_ok(expected_r, alt_s) THEN error
  ELSE IF ecdsa_verify(SECP256R1, the_public_key, message_hash,
                       encode_dss_signature(expected_r, alt_s))
       THEN verified
  ELSE failed

\* Lines 209-229.
verify_expected_secp256r1(the_public_key, message_hash, expected_r, expected_s) ==
  LET error    == ReturnFalse(Message("secp256r1 validation error", <<>>, <<>>))
      verified == ReturnTrue(Message("secp256r1 signature verified", <<>>, <<>>))
      failed   == ReturnFalse(Message("secp256r1 signature verification FAILED",
                                      <<>>, <<>>))
  IN
  IF ~encode_dss_signature_ok(expected_r, expected_s) THEN error
  ELSE IF ecdsa_verify(SECP256R1, the_public_key, message_hash,
                       encode_dss_signature(expected_r, expected_s))
       THEN verified
  ELSE LET n     == 11
           alt_s == n - expected_s
       IN
  IF ~encode_dss_signature_ok(expected_r, alt_s) THEN error
  ELSE IF ecdsa_verify(SECP256R1, the_public_key, message_hash,
                       encode_dss_signature(expected_r, alt_s))
       THEN verified
  ELSE failed

validate_secp256r1(vector) ==
  LET error == ReturnFalse(Message("secp256r1 validation error", <<>>, <<>>))
  IN
  IF ~has_signatures(vector) THEN error
  ELSE LET sigs == vector.expected.signatures IN
  IF "secp256r1" \notin DOMAIN sigs
  THEN ReturnNone(Message("No secp256r1 signature in vector", <<>>, <<>>))
  ELSE LET secp_data == sigs["secp256r1"] IN
  IF ~HasKeys(secp_data, {"private_key_hex", "public_key_hex", "signature_hex"})
  THEN error
  ELSE IF ~HasKeys(vector.expected, {"sign_bytes_hex"}) THEN error
  ELSE LET priv_key_hex     == secp_data.private_key_hex
           expected_sig_hex == secp_data.signature_hex
           sign_bytes_hex   == vector.expected.sign_bytes_hex
       IN
  IF Len(expected_sig_hex) = 0
  THEN ReturnNone(Message("Empty signature (seed derivation only)", <<>>, <<>>))
  ELSE IF ~fromhex_ok(priv_key_hex) THEN error
  ELSE LET priv_key_int == from_bytes_big(fromhex(priv_key_hex)) IN
  IF ~derive_private_key_ok(priv_key_int, SECP256R1) THEN error
  ELSE IF ~fromhex_ok(sign_bytes_hex) THEN error
  ELSE IF ~fromhex_ok(expected_sig_hex) THEN error
  ELSE LET message_hash       == fromhex(sign_bytes_hex)
           expected_sig_bytes == fromhex(expected_sig_hex)
           expected_r == from_bytes_big(slice_to(expected_sig_bytes, SCALAR_BYTES))
           expected_s == from_bytes_big(slice_from(expected_sig_bytes, SCALAR_BYTES))
       IN  verify_expected_secp256r1(public_key(priv_key_int, SECP256R1),
                                     message_hash, expected_r, expected_s)

(***************************************************************************)
(* validate_vector and the loop body of run                                *)
(***************************************************************************)
\* The (result, message) pairs of lines 240, 245 and 250.
check_results(vector) ==
  [f \in FamilySet |->
     CASE f = "ed25519"   -> validate_ed25519(vector)
       [] f = "secp256k1" -> validate_secp256k1(vector)
       [] f = "secp256r1" -> validate_secp256r1(vector)]

\* results["algorithms"][algo] = {"passed": result, "message": message}
algorithm_entry(algo, check) ==
  [algo |-> algo, passed |-> (check.result = "Valid"), message |-> check.message]

\* Variant of validate_vector that also keeps the checks that returned None.
validate_vector_keep_none(vector) ==
  [name |-> vector.name,
   algorithms |->
     <<algorithm_entry("ed25519", validate_ed25519(vector)),
       algorithm_entry("secp256k1", validate_secp256k1(vector)),
       algorithm_entry("secp256r1", validate_secp256r1(vector))>>]

\* validate_vector, for a vector that has a "name" (line 236 raises KeyError
\* otherwise).  The algorithms dict is the sequence of its items in
\* insertion order.
validate_vector(vector) ==
  LET name == vector.name
      ed == validate_ed25519(vector)
      k1 == validate_secp256k1(vector)
      r1 == validate_secp256r1(vector)
  IN  [name |-> name,
       algorithms |->
         (IF ed.result # "Skipped"
          THEN <<algorithm_entry("ed25519", ed)>> ELSE <<>>)
         \o (IF k1.result # "Skipped"
             THEN <<algorithm_entry("secp256k1", k1)>> ELSE <<>>)
         \o (IF r1.result # "Skipped"
             THEN <<algorithm_entry("secp256r1", r1)>> ELSE <<>>)]

\* Variant of identifier that leaves the family out.
identifier_name_only(name, algo) == name

\* f"{name}:{algo}"
identifier(name, algo) == name \o <<":", algo>>

\* Variant of record_algorithms that appends a failing item to the skipped
\* bucket.
RECURSIVE record_algorithms_fail_as_skip(_, _, _)
record_algorithms_fail_as_skip(res, name, algorithms) ==
  IF Len(algorithms) = 0 THEN res
  ELSE LET algo_result == Head(algorithms)
           next == IF algo_result.passed
                   THEN [res EXCEPT !.passed =
                           Append(@, identifier(name, algo_result.algo))]
                   ELSE [res EXCEPT !.skipped =
                           Append(@, identifier(name, algo_result.algo))]
       IN  record_algorithms_fail_as_skip(next, name, Tail(algorithms))

\* Lines 275-283: one append per item of the algorithms dict.
RECURSIVE record_algorithms(_, _, _)
record_algorithms(res, name, algorithms) ==
  IF Len(algorithms) = 0 THEN res
  ELSE LET algo_result == Head(algorithms)
           next == IF algo_result.passed
                   THEN [res EXCEPT !.passed =
                           Append(@, identifier(name, algo_result.algo))]
                   ELSE [res EXCEPT !.failed =
                           Append(@, identifier(name, algo_result.algo))]
       IN  record_algorithms(next, name, Tail(algorithms))

\* Variant of vector_passed that keeps the verdict of the last item only.
vector_passed_last_item(algorithms) ==
  algorithms[Len(algorithms)].passed

\* vector_passed at line 285.
vector_passed(algorithms) ==
  \A j \in 1..Len(algorithms) : algorithms[j].passed

(***************************************************************************)
(* Inputs: the parsed content of the vectors file.                         *)
(***************************************************************************)
NoSignatures == [f \in {} |-> 0]

SignatureEntry(priv_key_hex, sig_hex) ==
  [private_key_hex |-> priv_key_hex,
   public_key_hex  |-> <<"0", "2">>,
   signature_hex   |-> sig_hex]

One(family, entry) == [f \in {family} |-> entry]

MakeVector(name, sign_bytes_hex, signatures) ==
  [name |-> name,
   expected |-> [sign_bytes_hex |-> sign_bytes_hex, signatures |-> signatures]]

\* All byte strings of lo..hi bytes over the byte values vals.
ByteStrings(vals, lo, hi) == UNION {[1..k -> vals] : k \in lo..hi}

\* str.upper() of a hex string.
Upper(h) ==
  [j \in 1..Len(h) |->
     CASE h[j] = "a" -> "A" [] h[j] = "b" -> "B" [] h[j] = "c" -> "C"
       [] h[j] = "d" -> "D" [] h[j] = "e" -> "E" [] h[j] = "f" -> "F"
       [] OTHER -> h[j]]

SigByteVals == {0, 1, 2, 5}
EdKeyByteVals == {1, 2}
ZeroDigest == hex(<<0, 0>>)
Digests == {ZeroDigest, hex(<<0, 5>>)}

\* One ECDSA family, a usable key and digest, every claimed signature of up
\* to MaxSigLen bytes.
ECDSASignatureVectors ==
  {MakeVector(<<"t">>, ZeroDigest, One(f, SignatureEntry(hex(<<0, d>>), hex(sig)))) :
     <<f, d, sig>> \in ECDSAFamilies \X {2, 3} \X ByteStrings(SigByteVals, 0, MaxSigLen)}

\* One ECDSA family, keys and digests that are out of range, of the wrong
\* length or not hexadecimal, and a few claimed signatures.
ECDSAMalformedVectors ==
  {MakeVector(<<"t">>, digest, One(f, SignatureEntry(priv, sig))) :
     <<f, priv, digest, sig>> \in
       ECDSAFamilies
       \X {hex(<<0, 0>>), hex(<<0, 3>>), hex(<<0, 12>>), <<"g", "0">>}
       \X (Digests \cup {hex(<<5>>), <<"0">>})
       \X {<<>>, hex(<<0, 1, 0, 2>>), hex(<<0, 1, 0, 10>>),
           Upper(hex(<<0, 1, 0, 10>>)), <<"0", "1", "0">>}}

\* Every seed of the scaled size.
Seeds == ByteStrings(EdKeyByteVals, SCALAR_BYTES, SCALAR_BYTES)

\* Claimed Ed25519 signatures: the signature of some seed, in lower or upper
\* case, or the empty string.
EdClaimedSignatures(digest) ==
  {<<>>} \cup UNION {{hex(ed25519_sign(seed, fromhex(digest))),
                      Upper(hex(ed25519_sign(seed, fromhex(digest))))} :
                     seed \in Seeds}

\* Ed25519 only, every private key of up to MaxKeyLen bytes.
Ed25519Vectors ==
  UNION {{MakeVector(<<"t">>, digest, One("ed25519", SignatureEntry(hex(key), sig))) :
            <<key, sig>> \in ByteStrings(EdKeyByteVals, 0, MaxKeyLen)
                             \X EdClaimedSignatures(digest)} :
         digest \in Digests}

\* Two Ed25519 vectors with the same digest and claimed signature, one with
\* a 64-byte private key and one with its first 32 bytes.
Ed25519SeedPairs ==
  UNION {{<<MakeVector(<<"t">>, digest,
                       One("ed25519", SignatureEntry(hex(key), sig))),
            MakeVector(<<"u">>, digest,
                       One("ed25519",
                           SignatureEntry(hex(slice_to(key, SCALAR_BYTES)), sig)))>> :
            <<key, sig>> \in ByteStrings(EdKeyByteVals, DOUBLE_BYTES, DOUBLE_BYTES)
                             \X EdClaimedSignatures(digest)} :
         digest \in Digests}

\* A handful of whole vectors for collections of several vectors.
EdGood == SignatureEntry(hex(<<1, 2, 1, 1>>),
                         hex(ed25519_sign(<<1, 2>>, <<0, 0>>)))
EdBad == SignatureEntry(hex(<<1, 2, 1, 1>>),
                        hex(ed25519_sign(<<2, 2>>, <<0, 0>>)))
K1Good == SignatureEntry(hex(<<0, 3>>), hex(<<0, 1, 0, 5>>))
R1Good == SignatureEntry(hex(<<0, 2>>), hex(<<0, 2, 0, 6>>))
K1Bad == SignatureEntry(hex(<<0, 3>>), hex(<<0, 1, 0, 3>>))
EmptySig == SignatureEntry(hex(<<0, 2>>), <<>>)

SampleVectors ==
  { \* every family present and valid
    MakeVector(<<"v1">>, ZeroDigest,
               [f \in FamilySet |->
                  CASE f = "ed25519" -> EdGood [] f = "secp256k1" -> K1Good
                    [] f = "secp256r1" -> R1Good]),
    \* Ed25519 only
    MakeVector(<<"v2">>, ZeroDigest, One("ed25519", EdGood)),
    \* no family at all
    MakeVector(<<"v3">>, ZeroDigest, NoSignatures),
    \* secp256k1 invalid (S + 1), secp256r1 valid, Ed25519 absent
    MakeVector(<<"v4">>, ZeroDigest,
               [f \in ECDSAFamilies |->
                  IF f = "secp256k1" THEN K1Bad ELSE R1Good]),
    \* both ECDSA families with an empty signature, Ed25519 absent
    MakeVector(<<"v5">>, ZeroDigest, [f \in ECDSAFamilies |-> EmptySig]),
    \* Ed25519 with an empty signature
    MakeVector(<<"v6">>, ZeroDigest,
               One("ed25519", SignatureEntry(hex(<<1, 2, 1, 1>>), <<>>))),
    \* no "expected"
    [name |-> <<"v7">>],
    \* no "name"
    [expected |-> [sign_bytes_hex |-> ZeroDigest,
                   signatures |-> One("ed25519", EdGood)]],
    \* the name of the first vector again, with a wrong Ed25519 signature
    MakeVector(<<"v1">>, ZeroDigest, One("ed25519", EdBad)) }

RECURSIVE SequencesUpTo(_, _)
SequencesUpTo(S, k) ==
  IF k = 0 THEN {<<>>}
  ELSE LET shorter == SequencesUpTo(S, k - 1)
       IN  shorter \cup {Append(q, x) : <<q, x>> \in shorter \X S}

\* Collections of several vectors.
SampleCollections == SequencesUpTo(SampleVectors, MaxVectors)

\* Collections made for one check, or for one pair of checks.
CheckCollections ==
  {<<v>> : v \in ECDSASignatureVectors \cup ECDSAMalformedVectors
                   \cup Ed25519Vectors}
    \cup Ed25519SeedPairs

(***************************************************************************)
(* State.                                                                  *)
(***************************************************************************)
VARIABLES
  file_exists,   \* args.vectors_file.exists()
  json_output,   \* --json-output was given
  vectors,       \* data["vectors"], the content of the vectors file
  pc,            \* "main", "loop", "returned", "exited" or "raised"
  idx,           \* position of the for loop of run in vectors
  results,       \* self.results
  all_passed,    \* the local all_passed of run
  success,       \* the local success of main
  outcomes,      \* per vector checked, the (result, message) of the 3 checks
  json_file,     \* <<>>, or <<r>> when r was dumped to the JSON output file
  exit_code      \* -1 while the process runs, then its exit status

vars == <<file_exists, json_output, vectors, pc, idx, results, all_passed,
          success, outcomes, json_file, exit_code>>

Init ==
  /\ \/ file_exists = FALSE /\ vectors = <<>> /\ json_output \in BOOLEAN
     \/ file_exists = TRUE /\ vectors \in SampleCollections
          /\ json_output \in BOOLEAN
     \/ file_exists = TRUE /\ vectors \in CheckCollections
          /\ json_output = FALSE
  /\ pc = "main"
  /\ idx = 1
  /\ results = [passed |-> <<>>, failed |-> <<>>, skipped |-> <<>>]
  /\ all_passed = TRUE
  /\ success = TRUE
  /\ outcomes = <<>>
  /\ json_file = <<>>
  /\ exit_code = -1

\* main, lines 322-324: the vectors file is missing.
MainFileMissing ==
  /\ pc = "main"
  /\ ~file_exists
  /\ pc' = "exited"
  /\ exit_code' = 1
  /\ UNCHANGED <<file_exists, json_output, vectors, idx, results, all_passed,
                 success, outcomes, json_file>>

\* main line 326-327 and run lines 258-263: load the vectors, enter the loop.
RunStart ==
  /\ pc = "main"
  /\ file_exists
  /\ pc' = "loop"
  /\ idx' = 1
  /\ all_passed' = TRUE
  /\ UNCHANGED <<file_exists, json_output, vectors, results, success,
                 outcomes, json_file, exit_code>>

\* One iteration of the loop of run, lines 265-286.
RunVector ==
  /\ pc = "loop"
  /\ idx <= Len(vectors)
  /\ "name" \in DOMAIN vectors[idx]
  /\ LET vector == vectors[idx]
         result == validate_vector(vector)
         name   == result.name
     IN  /\ IF Len(result.algorithms) = 0
            THEN /\ results' = [results EXCEPT !.skipped = Append(@, name)]
                 /\ all_passed' = all_passed
            ELSE /\ results' = record_algorithms(results, name, result.algorithms)
                 /\ all_passed' = IF vector_passed(result.algorithms)
                                  THEN all_passed ELSE FALSE
         /\ outcomes' = Append(outcomes, check_results(vector))
  /\ idx' = idx + 1
  /\ UNCHANGED <<file_exists, json_output, vectors, pc, success, json_file,
                 exit_code>>

\* The KeyError of vector["name"] (line 236) is caught nowhere: it leaves
\* validate_vector, run and main, and the interpreter exits with status 1.
RunVectorRaises ==
  /\ pc = "loop"
  /\ idx <= Len(vectors)
  /\ "name" \notin DOMAIN vectors[idx]
  /\ pc' = "raised"
  /\ exit_code' = 1
  /\ UNCHANGED <<file_exists, json_output, vectors, idx, results, all_passed,
                 success, outcomes, json_file>>

\* run lines 288-301: the loop is over, return all_passed to main.
RunReturn ==
  /\ pc = "loop"
  /\ idx > Len(vectors)
  /\ success' = all_passed
  /\ pc' = "returned"
  /\ UNCHANGED <<file_exists, json_output, vectors, idx, results, all_passed,
                 outcomes, json_file, exit_code>>

\* main lines 329-334: dump the results when asked to, then exit.
MainExit ==
  /\ pc = "returned"
  /\ json_file' = IF json_output THEN <<results>> ELSE <<>>
  /\ exit_code' = IF success THEN 0 ELSE 1
  /\ pc' = "exited"
  /\ UNCHANGED <<file_exists, json_output, vectors, idx, results, all_passed,
                 success, outcomes>>

Next ==
  \/ MainFileMissing
  \/ RunStart
  \/ RunVector
  \/ RunVectorRaises
  \/ RunReturn
  \/ MainExit

Spec == Init /\ [][Next]_vars

(***************************************************************************)
(* Vocabulary of the properties.                                           *)
(***************************************************************************)
\* The vectors the loop has checked: outcomes[k] belongs to vectors[k].
Checked == 1..Len(outcomes)

RunReturned == pc = "returned" \/ (pc = "exited" /\ file_exists)

\* The identifier "<name>:<family>".
NameColonFamily(name, f) == name \o <<":">> \o <<f>>

Count(seq, e) == Cardinality({j \in 1..Len(seq) : seq[j] = e})

CurveOf(f) == IF f = "secp256k1" THEN SECP256K1 ELSE SECP256R1

\* The vector has a signatures map with no entry for the family.
FamilyAbsent(v, f) ==
  /\ has_signatures(v)
  /\ f \notin DOMAIN v.expected.signatures

\* The vector has an entry for the family, with a claimed signature.
HasClaimedSignature(v, f) ==
  /\ has_signatures(v)
  /\ f \in DOMAIN v.expected.signatures
  /\ "signature_hex" \in DOMAIN v.expected.signatures[f]

EmptyClaimedSignature(v, f) ==
  /\ HasClaimedSignature(v, f)
  /\ Len(v.expected.signatures[f].signature_hex) = 0

NonEmptyClaimedSignature(v, f) ==
  /\ HasClaimedSignature(v, f)
  /\ Len(v.expected.signatures[f].signature_hex) > 0

\* Every field of an ECDSA check is there and decodes, and the private key
\* is a scalar of the family's curve.
ECDSAWellFormed(v, f) ==
  /\ HasKeys(v.expected.signatures[f],
             {"private_key_hex", "public_key_hex", "signature_hex"})
  /\ HasKeys(v.expected, {"sign_bytes_hex"})
  /\ fromhex_ok(v.expected.signatures[f].private_key_hex)
  /\ fromhex_ok(v.expected.sign_bytes_hex)
  /\ fromhex_ok(v.expected.signatures[f].signature_hex)
  /\ derive_private_key_ok(
       from_bytes_big(fromhex(v.expected.signatures[f].private_key_hex)),
       CurveOf(f))

\* The reference verification accepts (R, S) or (R, n - S) for the key and
\* digest of the vector, n being the order of the family's curve.
ReferenceAccepts(v, f, R, S) ==
  LET curve  == CurveOf(f)
      Q      == public_key(
                  from_bytes_big(fromhex(v.expected.signatures[f].private_key_hex)),
                  curve)
      digest == fromhex(v.expected.sign_bytes_hex)
  IN  \/ ecdsa_verify(curve, Q, digest, <<R, S>>)
      \/ ecdsa_verify(curve, Q, digest, <<R, curve.n - S>>)

SignatureBytes(v, f) == fromhex(v.expected.signatures[f].signature_hex)
\* R: the first 32 bytes.  S: the bytes after them.
FirstR(v, f) == from_bytes_big(slice_to(SignatureBytes(v, f), SCALAR_BYTES))
RestS(v, f) == from_bytes_big(slice_from(SignatureBytes(v, f), SCALAR_BYTES))
\* S as the last 32 bytes.
LastS(v, f) == from_bytes_big(slice_last(SignatureBytes(v, f), SCALAR_BYTES))

(***************************************************************************)
(* C1.  For secp256k1 and secp256r1 and every checked vector with a        *)
(* non-empty claimed signature, the check returns Valid if and only if the *)
(* reference verification accepts (R, S) or (R, n - S), n being the order  *)
(* of the curve of that family, and Invalid in every other case.           *)
(***************************************************************************)
ThmC1 ==
  \A k \in Checked : \A f \in ECDSAFamilies :
    NonEmptyClaimedSignature(vectors[k], f) =>
      outcomes[k][f].result =
        IF /\ ECDSAWellFormed(vectors[k], f)
           /\ ReferenceAccepts(vectors[k], f, FirstR(vectors[k], f),
                               RestS(vectors[k], f))
        THEN "Valid" ELSE "Invalid"

\* One vector checked Valid on both curves, each with a high S (2S > n).
WitC1 ==
  \E k \in Checked : \A f \in ECDSAFamilies :
    /\ NonEmptyClaimedSignature(vectors[k], f)
    /\ ECDSAWellFormed(vectors[k], f)
    /\ 2 * RestS(vectors[k], f) > CurveOf(f).n
    /\ outcomes[k][f].result = "Valid"

(***************************************************************************)
(* C2.  For every family, a checked vector that supplies the family with   *)
(* an empty claimed signature yields Skipped for it.  Stated for vectors   *)
(* whose other fields are all present and usable.                          *)
(***************************************************************************)
OtherFieldsUsable(v, f) ==
  /\ HasKeys(v.expected.signatures[f], {"private_key_hex", "public_key_hex"})
  /\ HasKeys(v.expected, {"sign_bytes_hex"})
  /\ fromhex_ok(v.expected.sign_bytes_hex)
  /\ Len(fromhex(v.expected.sign_bytes_hex)) = SCALAR_BYTES
  /\ fromhex_ok(v.expected.signatures[f].private_key_hex)
  /\ IF f = "ed25519"
     THEN Len(fromhex(v.expected.signatures[f].private_key_hex))
            \in {SCALAR_BYTES, DOUBLE_BYTES}
     ELSE derive_private_key_ok(
            from_bytes_big(fromhex(v.expected.signatures[f].private_key_hex)),
            CurveOf(f))

OrigC2 ==
  \A k \in Checked : \A f \in FamilySet :
    (EmptyClaimedSignature(vectors[k], f) /\ OtherFieldsUsable(vectors[k], f))
      => outcomes[k][f].result = "Skipped"

(***************************************************************************)
(* C3.  When run has returned, its value is false exactly when some check  *)
(* produced Invalid, exactly when the failed bucket is non-empty; the exit *)
(* code is 0 exactly when it is true.  Skipped outcomes do not count.      *)
(***************************************************************************)
AnyInvalid ==
  \E k \in Checked : \E f \in FamilySet : outcomes[k][f].result = "Invalid"

ThmC3 ==
  RunReturned =>
    /\ Len(outcomes) = Len(vectors)
    /\ success = ~AnyInvalid
    /\ success = (Len(results.failed) = 0)
    /\ pc = "exited" => ((exit_code = 0) = success)
    /\ pc = "exited" => exit_code \in {0, 1}

\* A run that failed, with a skipped vector and an Invalid outcome.
WitC3 ==
  /\ pc = "exited"
  /\ file_exists
  /\ exit_code = 1
  /\ Len(results.skipped) > 0
  /\ Len(results.failed) > 0
  /\ Len(results.passed) > 0

(***************************************************************************)
(* C4.  As claimed: when run has returned, every (vector, family) pair is  *)
(* recorded in exactly one bucket (as "<name>:<family>", or through the    *)
(* bare name of its vector in skipped).  Stated for vectors of distinct    *)
(* names, so that identifiers name one pair.                               *)
(***************************************************************************)
NamesDistinct ==
  \A i, j \in 1..Len(vectors) :
    i # j => vectors[i].name # vectors[j].name

Recorded(k, f) ==
  LET id == NameColonFamily(vectors[k].name, f)
  IN  Count(results.passed, id) + Count(results.failed, id)
        + Count(results.skipped, id) + Count(results.skipped, vectors[k].name)

RECURSIVE PairsOf(_, _, _)
PairsOf(k, kind, j) ==
  IF j > Len(FAMILIES) THEN <<>>
  ELSE (IF outcomes[k][FAMILIES[j]].result = kind
        THEN <<NameColonFamily(vectors[k].name, FAMILIES[j])>> ELSE <<>>)
       \o PairsOf(k, kind, j + 1)

RECURSIVE BucketOf(_, _)
BucketOf(kind, k) ==
  IF k = 0 THEN <<>> ELSE BucketOf(kind, k - 1) \o PairsOf(k, kind, 1)

AllSkipped(k) == \A f \in FamilySet : outcomes[k][f].result = "Skipped"

RECURSIVE SkippedNames(_)
SkippedNames(k) ==
  IF k = 0 THEN <<>>
  ELSE SkippedNames(k - 1)
       \o (IF AllSkipped(k) THEN <<vectors[k].name>> ELSE <<>>)

ThmC5 ==
  [][\A f \in FamilySet :
       (/\ pc = "loop"
        /\ idx' = idx + 1
        /\ FamilyAbsent(vectors[idx], f))
       => /\ outcomes'[idx][f].result = "Skipped"
          /\ Count(results'.passed, NameColonFamily(vectors[idx].name, f))
               = Count(results.passed, NameColonFamily(vectors[idx].name, f))
          /\ Count(results'.failed, NameColonFamily(vectors[idx].name, f))
               = Count(results.failed, NameColonFamily(vectors[idx].name, f))]_vars

\* A checked vector with a family absent and another family Valid.
WitC5 ==
  \E k \in Checked : \E f, g \in FamilySet :
    /\ FamilyAbsent(vectors[k], f)
    /\ outcomes[k][f].result = "Skipped"
    /\ outcomes[k][g].result = "Valid"
    /\ Count(results.passed, NameColonFamily(vectors[k].name, g)) > 0
    /\ Count(results.passed, NameColonFamily(vectors[k].name, f)) = 0

(***************************************************************************)
(* C6.  No exception caused by a malformed vector leaves run: every vector *)
(* of the collection is checked and run returns.                           *)
(***************************************************************************)
OrigC6 == pc # "raised"

(***************************************************************************)
(* C7.  Two checked Ed25519 vectors with the same digest and claimed       *)
(* signature, one with a 64-byte private key and the other with the first  *)
(* 32 bytes of that key, have the same result and the same recomputed      *)
(* signature in their messages.                                            *)
(***************************************************************************)
Ed25519Key(v) == fromhex(v.expected.signatures["ed25519"].private_key_hex)

SeedPair(v, w) ==
  /\ HasClaimedSignature(v, "ed25519")
  /\ HasClaimedSignature(w, "ed25519")
  /\ HasKeys(v.expected.signatures["ed25519"], {"private_key_hex"})
  /\ HasKeys(w.expected.signatures["ed25519"], {"private_key_hex"})
  /\ HasKeys(v.expected, {"sign_bytes_hex"})
  /\ HasKeys(w.expected, {"sign_bytes_hex"})
  /\ v.expected.sign_bytes_hex = w.expected.sign_bytes_hex
  /\ v.expected.signatures["ed25519"].signature_hex
       = w.expected.signatures["ed25519"].signature_hex
  /\ fromhex_ok(v.expected.signatures["ed25519"].private_key_hex)
  /\ fromhex_ok(w.expected.signatures["ed25519"].private_key_hex)
  /\ Len(Ed25519Key(v)) = DOUBLE_BYTES
  /\ Ed25519Key(w) = SubSeq(Ed25519Key(v), 1, SCALAR_BYTES)

ThmC7 ==
  \A i, j \in Checked :
    SeedPair(vectors[i], vectors[j]) =>
      outcomes[i]["ed25519"] = outcomes[j]["ed25519"]

\* Such a pair, checked, whose key halves differ, both Valid.
WitC7 ==
  \E i, j \in Checked :
    /\ SeedPair(vectors[i], vectors[j])
    /\ SubSeq(Ed25519Key(vectors[i]), SCALAR_BYTES + 1, DOUBLE_BYTES)
         # Ed25519Key(vectors[j])
    /\ outcomes[i]["ed25519"].result = "Valid"
    /\ outcomes[j]["ed25519"].result = "Valid"

(***************************************************************************)
(* C8.  As claimed: every entry of the passed, failed and skipped arrays   *)
(* of the dumped JSON report is "<name>:<family>" for a vector of the      *)
(* input and a family.                                                     *)
(***************************************************************************)
IsIdentifier(e) ==
  \E k \in 1..Len(vectors) : \E f \in FamilySet :
    /\ "name" \in DOMAIN vectors[k]
    /\ e = NameColonFamily(vectors[k].name, f)

IsVectorName(e) ==
  \E k \in 1..Len(vectors) :
    /\ "name" \in DOMAIN vectors[k]
    /\ e = vectors[k].name

Dumped == pc = "exited" /\ Len(json_file) = 1

OrigC8 ==
  Dumped =>
    /\ \A j \in 1..Len(json_file[1].passed) : IsIdentifier(json_file[1].passed[j])
    /\ \A j \in 1..Len(json_file[1].failed) : IsIdentifier(json_file[1].failed[j])
    /\ \A j \in 1..Len(json_file[1].skipped) : IsIdentifier(json_file[1].skipped[j])

(***************************************************************************)
(* C8, amended.  Every entry of the passed and failed arrays of the dumped *)
(* JSON report is "<name>:<family>" for a vector of the input and a        *)
(* family; every entry of the skipped array is the bare name of a vector   *)
(* of the input.                                                           *)
(***************************************************************************)
ThmC8 ==
  Dumped =>
    /\ \A j \in 1..Len(json_file[1].passed) : IsIdentifier(json_file[1].passed[j])
    /\ \A j \in 1..Len(json_file[1].failed) : IsIdentifier(json_file[1].failed[j])
    /\ \A j \in 1..Len(json_file[1].skipped) :
         IsVectorName(json_file[1].skipped[j])

\* A dumped report with an entry in each of the three arrays.
WitC8 ==
  /\ Dumped
  /\ Len(json_file[1].passed) > 0
  /\ Len(json_file[1].failed) > 0
  /\ Len(json_file[1].skipped) > 0

(***************************************************************************)
(* C10.  As claimed: a check of an ECDSA family that reports Valid rests   *)
(* on R = the first 32 bytes and S = the last 32 bytes of the claimed      *)
(* signature, whatever its length: the reference verification accepts that *)
(* (R, S) or (R, n - S).                                                   *)
(***************************************************************************)
OrigC10 ==
  \A k \in Checked : \A f \in ECDSAFamilies :
    (/\ NonEmptyClaimedSignature(vectors[k], f)
     /\ outcomes[k][f].result = "Valid")
    => /\ ECDSAWellFormed(vectors[k], f)
       /\ ReferenceAccepts(vectors[k], f, FirstR(vectors[k], f),
                           LastS(vectors[k], f))

=============================================================================
